---- MODULE Spec2Model ----
(***************************************************************************)
(* A* pathfinder (src/astar.py): make_level, Node.update_neighbors,        *)
(* find_path, reconstruct_path and the event loop of main, as a state      *)
(* machine.  A node is identified by its position <<row, col>> (0-based,   *)
(* as Node.get_position returns it); its type is kept in level.            *)
(***************************************************************************)
EXTENDS Integers, Sequences, FiniteSets, TLC

\* ------------------------------------------------------------------ bounds
\* Well-formed maps (specification Spec): at most MaxRows x MaxCols symbols.
MaxRows == 2
MaxCols == 3
\* Arbitrary map texts (specification SpecAny): at most AnyRows lines of at
\* most AnyCols characters before the line terminator.
AnyRows == 2
AnyCols == 2
\* Longest list of events one pygame.event.get() returns.
MaxEvents == 1
\* The size limits of specification SpecLimit, which stand for ROW_LIMIT and
\* COL_LIMIT there; its map texts have up to two rows and columns more.
RowLimit == 2
ColLimit == 2

\* --------------------------------------------------------------- constants
ROW_LIMIT == 100
COL_LIMIT == 100
\* float("inf"): larger than every path length of a map within the limits.
Inf == 1000000

\* NodeType values
CLOSED == "C"
OPEN == "O"
UNVISITED == "."
OBSTACLE == "#"
PATH == "P"
START == "S"
GOAL == "G"

NL == "\n"
None == <<>>

\* pygame events: QUIT, and KEYDOWN with key K_SPACE, K_ESCAPE or another key
Events == {"QUIT", "K_SPACE", "K_ESCAPE", "K_OTHER"}

\* ------------------------------------------------------------- map texts
Symbols == {OBSTACLE, START, GOAL, UNVISITED}

Cells(r, c) == (0 .. r - 1) \X (0 .. c - 1)

\* The text of an r x c map: line i holds the symbols of row i, every line but
\* the last ends in a line terminator, the last one does if nl.
MapText(r, c, sym, nl) ==
    [i \in 1 .. r |->
        LET line == [j \in 1 .. c |-> sym[<<i - 1, j - 1>>]]
        IN  IF i < r \/ nl THEN Append(line, NL) ELSE line]

\* The r x c maps with S at s, G at g and obstacles among the other cells.
MapsWith(r, c, s, g) ==
    { MapText(r, c,
              [p \in Cells(r, c) |->
                  IF p = s THEN START
                  ELSE IF p = g THEN GOAL
                  ELSE IF p \in obs THEN OBSTACLE ELSE UNVISITED],
              nl) :
        obs \in SUBSET (Cells(r, c) \ {s, g}), nl \in BOOLEAN }

\* Rectangular maps with exactly one S and one G.
WellFormedMaps ==
    UNION { UNION { UNION { MapsWith(r, c, s, g) : g \in Cells(r, c) \ {s} }
                    : s \in Cells(r, c) }
            : r \in 1 .. MaxRows, c \in 1 .. MaxCols }

\* Any text: lines of 0..AnyCols characters, "x" standing for a character
\* that is no map symbol; iterating a file yields no empty line.
AnyChars == Symbols \cup {"x"}

AnyLines == UNION { [1 .. n -> AnyChars] : n \in 0 .. AnyCols }

AnyMaps ==
    { t \in UNION { { [i \in 1 .. r |->
                         IF i < r \/ nl THEN Append(body[i], NL) ELSE body[i]] :
                       body \in [1 .. r -> AnyLines], nl \in BOOLEAN }
                    : r \in 0 .. AnyRows } :
        \A i \in 1 .. Len(t) : t[i] # <<>> }

\* ------------------------------------------------------------ make_level
\* Node(i, j, ...) for character ch: type by the if/elif chain; the line
\* terminator falls in the "pass" branch and keeps type UNVISITED.
NodeTypeOf(ch) ==
    IF ch = OBSTACLE THEN OBSTACLE
    ELSE IF ch = START THEN START
    ELSE IF ch = GOAL THEN GOAL
    ELSE UNVISITED

\* The positions of text holding character ch, as <<i, j>> (0-based).
PositionsOf(text, ch) ==
    { p \in UNION { {<<i - 1, j - 1>> : j \in 1 .. Len(text[i])} : i \in 1 .. Len(text) } :
        text[p[1] + 1][p[2] + 1] = ch }

\* Reading order of positions: row first, then column.
Before(p, q) == p[1] < q[1] \/ (p[1] = q[1] /\ p[2] < q[2])

\* start / goal: the node of the last S / G read, None when there is none.
LastOf(ps) == IF ps = {} THEN None
              ELSE CHOOSE p \in ps : \A q \in ps \ {p} : Before(q, p)

\* Whether make_level calls exit(): a character outside the map symbols and
\* the line terminator, a column index j > COL_LIMIT, a row index i > ROW_LIMIT.
\* rowLimit and colLimit are the values of ROW_LIMIT and COL_LIMIT.
make_level_exits_at(text, rowLimit, colLimit) ==
    \E i \in 1 .. Len(text) :
        \/ \E j \in 1 .. Len(text[i]) :
              \/ text[i][j] \notin Symbols \cup {NL}
              \/ j - 1 > colLimit
        \/ i - 1 > rowLimit

make_level_exits(text) == make_level_exits_at(text, ROW_LIMIT, COL_LIMIT)

\* make_level(drawData, size, filename) on the file text: one node per
\* character of every line, the line terminator included; cols is taken from
\* the last value of j, the last line's last index; rows from the last i.
\* An empty file leaves i and j unbound: line 222 raises.
make_level_at(text, rowLimit, colLimit) ==
    IF make_level_exits_at(text, rowLimit, colLimit) THEN [status |-> "exit"]
    ELSE IF Len(text) = 0 THEN [status |-> "error"]
    ELSE [status |-> "ok",
          level  |-> [i \in 1 .. Len(text) |->
                        [j \in 1 .. Len(text[i]) |-> NodeTypeOf(text[i][j])]],
          start  |-> LastOf(PositionsOf(text, START)),
          goal   |-> LastOf(PositionsOf(text, GOAL)),
          rows   |-> Len(text),
          cols   |-> Len(text[Len(text)])]

make_level(text) == make_level_at(text, ROW_LIMIT, COL_LIMIT)

\* ------------------------------------------------------------ level, nodes
NodesOf(lv) == UNION { {<<i - 1, j - 1>> : j \in 1 .. Len(lv[i])} : i \in 1 .. Len(lv) }

TypeAt(lv, n) == lv[n[1] + 1][n[2] + 1]

SetType(lv, n, t) == [lv EXCEPT ![n[1] + 1][n[2] + 1] = t]

\* level[r][c] raises IndexError when row r has no column c.
HasIndex(lv, r, c) == r + 1 \in 1 .. Len(lv) /\ c + 1 \in 1 .. Len(lv[r + 1])

\* Mutant of Look: the neighbour's is_obstacle() is not consulted.
Look_noObstacle(lv, acc, guard, r, c) ==
    IF acc.raised \/ ~guard THEN acc
    ELSE IF ~HasIndex(lv, r, c) THEN [acc EXCEPT !.raised = TRUE]
    ELSE [acc EXCEPT !.nbs = Append(@, <<r, c>>)]

\* One "if" of update_neighbors: guard is the bounds test, <<r, c>> the node
\* looked at. acc = [nbs, raised]; after an IndexError the except clause ends
\* the method with the neighbours appended so far.
Look(lv, acc, guard, r, c) ==
    IF acc.raised \/ ~guard THEN acc
    ELSE IF ~HasIndex(lv, r, c) THEN [acc EXCEPT !.raised = TRUE]
    ELSE IF TypeAt(lv, <<r, c>>) = OBSTACLE THEN acc
    ELSE [acc EXCEPT !.nbs = Append(@, <<r, c>>)]

\* Mutant of update_neighbors: the right neighbour of the cells of the last
\* but one column is not looked at (col < totalCols - 2).
update_neighbors_shortRight(lv, n, totalRows, totalCols) ==
    LET row == n[1]
        col == n[2]
        a0 == [nbs |-> <<>>, raised |-> FALSE]
        a1 == Look(lv, a0, row > 0, row - 1, col)
        a2 == Look(lv, a1, row < totalRows - 1, row + 1, col)
        a3 == Look(lv, a2, col > 0, row, col - 1)
        a4 == Look(lv, a3, col < totalCols - 2, row, col + 1)
    IN  a4.nbs

\* Node.update_neighbors(level): up, down, left, right, in this order.
update_neighbors(lv, n, totalRows, totalCols) ==
    LET row == n[1]
        col == n[2]
        a0 == [nbs |-> <<>>, raised |-> FALSE]
        a1 == Look(lv, a0, row > 0, row - 1, col)
        a2 == Look(lv, a1, row < totalRows - 1, row + 1, col)
        a3 == Look(lv, a2, col > 0, row, col - 1)
        a4 == Look(lv, a3, col < totalCols - 1, row, col + 1)
    IN  a4.nbs

\* ---------------------------------------------------------------------- h
Abs(x) == IF x < 0 THEN -x ELSE x

h(node1, node2) == Abs(node2[1] - node1[1]) + Abs(node2[2] - node1[2])

\* ------------------------------------------------------------------ state
VARIABLES
    mapText,        \* the contents of the map file, a sequence of lines
    pc,             \* "boot", "main", "loop", "step", "reconstruct", "exited", "crashed"
    level,          \* main: level, the node types by row and column
    start,          \* main: start node (position) or None
    goal,           \* main: goal node (position) or None
    size,           \* MAZE_SIZE: [rows, cols], also every node's totalRows/totalCols
    running,        \* main: running
    neighbors,      \* Node.neighbors of every node, a list
    count,          \* find_path: count
    visualize,      \* find_path: visualize
    openNodes,      \* find_path: the priority queue, a set of <<f, count, node>>
    came_from,      \* find_path: came_from, None for a node with no entry
    gScore,         \* find_path: gScore
    fScore,         \* find_path: fScore
    openNodesHash,  \* find_path: openNodesHash
    current,        \* find_path / reconstruct_path: current
    cancel,         \* find_path: the last pygame.event.get() held a QUIT or ESC event
    result,         \* what the last find_path call returned ("True", "False"), "none" before
    drawn,          \* whether the last step called draw()
    trace,          \* the running find_path call's pops, marks, step callbacks
                    \* and skip signal, in order
    prevTrace       \* those of the call before it, None when there was none

vars == <<mapText, pc, level, start, goal, size, running, neighbors, count,
          visualize, openNodes, came_from, gScore, fScore, openNodesHash,
          current, cancel, result, drawn, trace, prevTrace>>

searchVars == <<count, visualize, openNodes, came_from, gScore, fScore,
                openNodesHash, current, cancel>>

gridVars == <<level, start, goal, size, neighbors>>

\* ------------------------------------------------------------------- Init
InitRest ==
    /\ pc = "boot"
    /\ level = <<>>
    /\ start = None
    /\ goal = None
    /\ size = [rows |-> 0, cols |-> 0]
    /\ running = FALSE
    /\ neighbors = <<>>
    /\ count = 0
    /\ visualize = TRUE
    /\ openNodes = {}
    /\ came_from = <<>>
    /\ gScore = <<>>
    /\ fScore = <<>>
    /\ openNodesHash = {}
    /\ current = None
    /\ cancel = FALSE
    /\ result = "none"
    /\ drawn = FALSE
    /\ trace = <<>>
    /\ prevTrace = None

Init == mapText \in WellFormedMaps /\ InitRest

InitAny == mapText \in AnyMaps /\ InitRest

\* ------------------------------------------------------------------- main
\* main, lines 255-271: make_level, then the window and the first draw.
LoadAt(rowLimit, colLimit) ==
    /\ pc = "boot"
    /\ LET m == make_level_at(mapText, rowLimit, colLimit)
       IN  IF m.status = "ok"
           THEN /\ level' = m.level
                /\ start' = m.start
                /\ goal' = m.goal
                /\ size' = [rows |-> m.rows, cols |-> m.cols]
                /\ pc' = "main"
                /\ drawn' = TRUE
           ELSE /\ pc' = IF m.status = "exit" THEN "exited" ELSE "crashed"
                /\ drawn' = FALSE
                /\ UNCHANGED <<level, start, goal, size>>
    /\ UNCHANGED <<mapText, running, neighbors, searchVars, result, trace, prevTrace>>

Load == LoadAt(ROW_LIMIT, COL_LIMIT)

\* main, lines 275-277 and 293-295: QUIT or the ESC key ends the program.
MainQuit ==
    /\ pc = "main"
    /\ pc' = "exited"
    /\ drawn' = FALSE
    /\ UNCHANGED <<mapText, gridVars, running, searchVars, result, trace, prevTrace>>

\* find_path, lines 122-137, for the level lv with every node's neighbours
\* updated (main, lines 287-289).
NeighborsOf(lv, sz) ==
    [n \in NodesOf(lv) |-> update_neighbors(lv, n, sz.rows, sz.cols)]

\* main, lines 280-291: the SPACE key. A second press reloads the map and
\* draws it; then the neighbours are updated and find_path is called.
\* start.get_position() / goal.get_position() raise when either is None.
MainSpace ==
    /\ pc = "main"
    /\ LET m == IF running THEN make_level(mapText)
                ELSE [status |-> "ok", level |-> level, start |-> start,
                      goal |-> goal, rows |-> size.rows, cols |-> size.cols]
           sz == [rows |-> m.rows, cols |-> m.cols]
           nodes == NodesOf(m.level)
       IN  /\ m.status = "ok"
           /\ running' = TRUE
           /\ level' = m.level
           /\ start' = m.start
           /\ goal' = m.goal
           /\ size' = sz
           /\ neighbors' = NeighborsOf(m.level, sz)
           /\ prevTrace' = IF running THEN trace ELSE None
           /\ trace' = <<>>
           /\ result' = "none"
           /\ cancel' = FALSE
           /\ IF m.start = None \/ m.goal = None
              THEN /\ pc' = "crashed"
                   /\ drawn' = running
                   /\ UNCHANGED <<count, visualize, openNodes, came_from, gScore,
                                  fScore, openNodesHash, current>>
              ELSE /\ pc' = "loop"
                   /\ drawn' = running
                   /\ count' = 0
                   /\ visualize' = TRUE
                   /\ openNodes' = {<<0, 0, m.start>>}
                   /\ came_from' = [n \in nodes |-> None]
                   /\ gScore' = [n \in nodes |-> IF n = m.start THEN 0 ELSE Inf]
                   /\ fScore' = [n \in nodes |->
                                   IF n = m.start THEN h(m.start, m.goal) ELSE Inf]
                   /\ openNodesHash' = {m.start}
                   /\ current' = None
    /\ UNCHANGED mapText

\* -------------------------------------------------------------- find_path
EventLists == UNION { [1 .. n -> Events] : n \in 0 .. MaxEvents }

\* Mutant of Poll: the ESC key is not handled during a search.
RECURSIVE Poll_noEscape(_, _, _)
Poll_noEscape(evs, i, vis) ==
    IF i > Len(evs) THEN [exit |-> FALSE, visualize |-> vis]
    ELSE IF evs[i] = "QUIT" THEN [exit |-> TRUE, visualize |-> vis]
    ELSE IF evs[i] = "K_SPACE" THEN Poll_noEscape(evs, i + 1, FALSE)
    ELSE Poll_noEscape(evs, i + 1, vis)

\* find_path, lines 140-151: the events of one pygame.event.get(), in order.
\* QUIT and the ESC key call exit(); the SPACE key clears visualize.
RECURSIVE Poll(_, _, _)
Poll(evs, i, vis) ==
    IF i > Len(evs) THEN [exit |-> FALSE, visualize |-> vis]
    ELSE IF evs[i] = "QUIT" THEN [exit |-> TRUE, visualize |-> vis]
    ELSE IF evs[i] = "K_SPACE" THEN Poll(evs, i + 1, FALSE)
    ELSE IF evs[i] = "K_ESCAPE" THEN [exit |-> TRUE, visualize |-> vis]
    ELSE Poll(evs, i + 1, vis)

\* Whether a list of events holds a request to end the program.
HasCancel(evs) == \E i \in 1 .. Len(evs) : evs[i] \in {"QUIT", "K_ESCAPE"}

\* Mutant of EntryLE: a strict order, under which no entry is ordered before
\* or equal to itself and get() finds no entry to hand out.
EntryLE_strict(a, b) == a[1] < b[1] \/ (a[1] = b[1] /\ a[2] < b[2])

\* Mutant of EntryLE: the queue hands out the largest f first.
EntryLE_largest(a, b) == a[1] > b[1] \/ (a[1] = b[1] /\ a[2] <= b[2])

\* Mutant of EntryLE: count is no part of the order, entries of equal f tie.
EntryLE_noCount(a, b) == a[1] <= b[1]

\* The order of the queue's entries (f, count, node): by f, then by count.
EntryLE(a, b) == a[1] < b[1] \/ (a[1] = b[1] /\ a[2] <= b[2])

\* openNodes.get(): an entry no other entry is ordered before.
MinEntries(q) == { e \in q : \A o \in q : EntryLE(e, o) }

\* The key of the entry pushed for a neighbour: (fScore[neighbor], count).
PushKey(f, cnt) == <<f, cnt>>

\* Mutant of IsGoal: the node's type is tested (current.is_goal()).
IsGoal_byType(cur, gl) == TypeAt(level, cur) = GOAL

\* Mutant of ClosesCurrent: every expanded node is marked closed.
ClosesCurrent_always(cur, st) == TRUE

\* find_path, line 156: current == goal, the identity of the two nodes.
IsGoal(cur, gl) == cur = gl

\* find_path, line 179: the expanded node is marked closed unless it is start.
ClosesCurrent(cur, st) == cur # st

\* Mutant of Improves: every cost offered relaxes.
Improves_always(ng, g) == TRUE

\* Mutant of Improves: an equal cost relaxes too.
Improves_orEqual(ng, g) == ng <= g

\* find_path, line 166: the relaxation test.
Improves(ng, g) == ng < g

\* Mutant of RelaxOne: came_from is not written.
RelaxOne_noCameFrom(st, cur, n, gl) ==
    LET ng == st.g[cur] + 1
    IN  IF ~Improves(ng, st.g[n]) THEN st
        ELSE LET fn == ng + h(n, gl)
                 s1 == [st EXCEPT !.g[n] = ng, !.f[n] = fn]
             IN  IF n \in st.oh THEN s1
                 ELSE LET key == PushKey(fn, st.cnt + 1)
                      IN  [s1 EXCEPT !.cnt = st.cnt + 1,
                                     !.q = @ \cup {<<key[1], key[2], n>>},
                                     !.oh = @ \cup {n},
                                     !.lv = SetType(@, n, OPEN),
                                     !.tr = Append(@, <<"open", n>>)]

\* Mutant of RelaxOne: a relaxed neighbour is pushed whether or not it is in
\* openNodesHash.
RelaxOne_alwaysPush(st, cur, n, gl) ==
    LET ng == st.g[cur] + 1
    IN  IF ~Improves(ng, st.g[n]) THEN st
        ELSE LET fn == ng + h(n, gl)
                 key == PushKey(fn, st.cnt + 1)
             IN  [st EXCEPT !.cf[n] = cur, !.g[n] = ng, !.f[n] = fn,
                            !.cnt = st.cnt + 1,
                            !.q = @ \cup {<<key[1], key[2], n>>},
                            !.oh = @ \cup {n},
                            !.lv = SetType(@, n, OPEN),
                            !.tr = Append(@, <<"open", n>>)]

\* find_path, lines 162-175, for neighbour n of cur. st holds the locals the
\* loop body changes: cf, g, f, q, oh, cnt, and the level lv and trace tr.
RelaxOne(st, cur, n, gl) ==
    LET ng == st.g[cur] + 1
    IN  IF ~Improves(ng, st.g[n]) THEN st
        ELSE LET fn == ng + h(n, gl)
                 s1 == [st EXCEPT !.cf[n] = cur, !.g[n] = ng, !.f[n] = fn]
             IN  IF n \in st.oh THEN s1
                 ELSE LET key == PushKey(fn, st.cnt + 1)
                      IN  [s1 EXCEPT !.cnt = st.cnt + 1,
                                     !.q = @ \cup {<<key[1], key[2], n>>},
                                     !.oh = @ \cup {n},
                                     !.lv = SetType(@, n, OPEN),
                                     !.tr = Append(@, <<"open", n>>)]

\* find_path, line 161: the loop over current.neighbors, in list order.
RECURSIVE RelaxAll(_, _, _, _, _)
RelaxAll(st, cur, nbs, i, gl) ==
    IF i > Len(nbs) THEN st
    ELSE RelaxAll(RelaxOne(st, cur, nbs[i], gl), cur, nbs, i + 1, gl)

\* find_path, lines 139-175: one pass of the while loop up to the draw: the
\* events, the pop, the goal test (lines 156-158, up to the call of
\* reconstruct_path) or the relaxation of the neighbours.
Expand(evs) ==
    /\ pc = "loop"
    /\ openNodes # {}
    /\ cancel' = HasCancel(evs)
    /\ LET p == Poll(evs, 1, visualize)
       IN  IF p.exit
           THEN /\ pc' = "exited"
                /\ drawn' = FALSE
                /\ UNCHANGED <<level, count, visualize, openNodes, came_from, gScore,
                               fScore, openNodesHash, current, trace>>
           ELSE \E e \in MinEntries(openNodes) :
                LET cur == e[3]
                    q0 == openNodes \ {e}
                    oh0 == openNodesHash \ {cur}
                    tr0 == Append(IF visualize /\ ~p.visualize
                                  THEN Append(trace, <<"skip">>) ELSE trace,
                                  <<"pop", cur>>)
                IN  /\ visualize' = p.visualize
                    /\ current' = cur
                    /\ drawn' = FALSE
                    /\ IF IsGoal(cur, goal)
                       THEN /\ level' = SetType(level, cur, GOAL)
                            /\ openNodes' = q0
                            /\ openNodesHash' = oh0
                            /\ trace' = Append(tr0, <<"goal", cur>>)
                            /\ pc' = "reconstruct"
                            /\ UNCHANGED <<count, came_from, gScore, fScore>>
                       ELSE LET st == RelaxAll([cf |-> came_from, g |-> gScore,
                                                f |-> fScore, q |-> q0, oh |-> oh0,
                                                cnt |-> count, lv |-> level,
                                                tr |-> tr0],
                                               cur, neighbors[cur], 1, goal)
                            IN  /\ came_from' = st.cf
                                /\ gScore' = st.g
                                /\ fScore' = st.f
                                /\ openNodes' = st.q
                                /\ openNodesHash' = st.oh
                                /\ count' = st.cnt
                                /\ level' = st.lv
                                /\ trace' = st.tr
                                /\ pc' = "step"
    /\ UNCHANGED <<mapText, start, goal, size, running, neighbors, result, prevTrace>>

\* Mutant of Step: the step callback is invoked whatever visualize is.
Step_drawAlways ==
    /\ pc = "step"
    /\ drawn' = TRUE
    /\ LET tr0 == Append(trace, <<"draw">>)
       IN  IF ClosesCurrent(current, start)
           THEN /\ level' = SetType(level, current, CLOSED)
                /\ trace' = Append(tr0, <<"closed", current>>)
           ELSE /\ level' = level
                /\ trace' = tr0
    /\ pc' = "loop"
    /\ UNCHANGED <<mapText, start, goal, size, running, neighbors, searchVars,
                   result, prevTrace>>

\* find_path, lines 176-180: the step callback, then the expanded node is
\* marked closed unless it is the start.
Step ==
    /\ pc = "step"
    /\ drawn' = visualize
    /\ LET tr0 == IF visualize THEN Append(trace, <<"draw">>) ELSE trace
       IN  IF ClosesCurrent(current, start)
           THEN /\ level' = SetType(level, current, CLOSED)
                /\ trace' = Append(tr0, <<"closed", current>>)
           ELSE /\ level' = level
                /\ trace' = tr0
    /\ pc' = "loop"
    /\ UNCHANGED <<mapText, start, goal, size, running, neighbors, searchVars,
                   result, prevTrace>>

\* find_path, lines 139 and 182-183: the queue is empty, no path.
NoPath ==
    /\ pc = "loop"
    /\ openNodes = {}
    /\ result' = "False"
    /\ trace' = Append(trace, <<"return", "False">>)
    /\ pc' = "main"
    /\ drawn' = FALSE
    /\ UNCHANGED <<mapText, gridVars, running, searchVars, prevTrace>>

\* ------------------------------------------------------- reconstruct_path
\* Mutant of ReconstructStep: every cell walked over is marked, the start
\* included.
ReconstructStep_marksAll ==
    /\ pc = "reconstruct"
    /\ came_from[current] # None
    /\ LET nxt == came_from[current]
       IN  /\ current' = nxt
           /\ level' = SetType(level, nxt, PATH)
           /\ trace' = Append(Append(trace, <<"path", nxt>>), <<"draw">>)
    /\ drawn' = TRUE
    /\ UNCHANGED <<mapText, pc, start, goal, size, running, neighbors, count,
                   visualize, openNodes, came_from, gScore, fScore, openNodesHash,
                   cancel, result, prevTrace>>

\* reconstruct_path, lines 109-113: one pass of the loop.
ReconstructStep ==
    /\ pc = "reconstruct"
    /\ came_from[current] # None
    /\ LET nxt == came_from[current]
       IN  /\ current' = nxt
           /\ IF TypeAt(level, nxt) # START /\ TypeAt(level, nxt) # GOAL
              THEN /\ level' = SetType(level, nxt, PATH)
                   /\ trace' = Append(Append(trace, <<"path", nxt>>), <<"draw">>)
              ELSE /\ level' = level
                   /\ trace' = Append(trace, <<"draw">>)
    /\ drawn' = TRUE
    /\ UNCHANGED <<mapText, pc, start, goal, size, running, neighbors, count,
                   visualize, openNodes, came_from, gScore, fScore, openNodesHash,
                   cancel, result, prevTrace>>

\* reconstruct_path returns (current has no came_from entry) and find_path
\* returns True, line 159.
ReconstructDone ==
    /\ pc = "reconstruct"
    /\ came_from[current] = None
    /\ result' = "True"
    /\ trace' = Append(trace, <<"return", "True">>)
    /\ pc' = "main"
    /\ drawn' = FALSE
    /\ UNCHANGED <<mapText, gridVars, running, searchVars, prevTrace>>

\* ------------------------------------------------------------------- Next
Next ==
    \/ Load
    \/ MainQuit
    \/ MainSpace
    \/ \E evs \in EventLists : Expand(evs)
    \/ Step
    \/ NoPath
    \/ ReconstructStep
    \/ ReconstructDone

Spec == Init /\ [][Next]_vars

SpecAny == InitAny /\ [][Next]_vars

\* find_path called directly on the level of a well-formed map, with both
\* arguments start and goal possibly the same node (main never does this).
InitCall ==
    /\ mapText \in WellFormedMaps
    /\ LET m == make_level(mapText)
           sz == [rows |-> m.rows, cols |-> m.cols]
           nodes == NodesOf(m.level)
       IN  /\ level = m.level
           /\ start = m.start
           /\ goal \in {m.goal, m.start}
           /\ size = sz
           /\ neighbors = NeighborsOf(m.level, sz)
           /\ openNodes = {<<0, 0, m.start>>}
           /\ came_from = [n \in nodes |-> None]
           /\ gScore = [n \in nodes |-> IF n = m.start THEN 0 ELSE Inf]
           /\ fScore = [n \in nodes |-> IF n = m.start THEN h(m.start, goal) ELSE Inf]
           /\ openNodesHash = {m.start}
    /\ pc = "loop"
    /\ running = TRUE
    /\ count = 0
    /\ visualize = TRUE
    /\ current = None
    /\ cancel = FALSE
    /\ result = "none"
    /\ drawn = FALSE
    /\ trace = <<>>
    /\ prevTrace = None

NextCall ==
    \/ \E evs \in EventLists : Expand(evs)
    \/ Step
    \/ NoPath
    \/ ReconstructStep
    \/ ReconstructDone

SpecCall == InitCall /\ [][NextCall]_vars

\* The event lists without a request to end the program.
QuietEventLists == { evs \in EventLists : ~HasCancel(evs) }

\* A call of find_path during which no QUIT or ESC event arrives.
NextQuiet ==
    \/ \E evs \in QuietEventLists : Expand(evs)
    \/ Step
    \/ NoPath
    \/ ReconstructStep
    \/ ReconstructDone

\* Such a call runs on: the interpreter executes the next statement of the
\* loop, of reconstruct_path or the return whenever there is one
\* (pygame.event.get() does not block, nothing else waits).
SpecCallFair == InitCall /\ [][NextQuiet]_vars /\ WF_vars(NextQuiet)

\* make_level alone, with ROW_LIMIT = RowLimit and COL_LIMIT = ColLimit, on
\* texts of unvisited cells: up to RowLimit + 2 lines of up to ColLimit + 2
\* cells, the last line terminated or not.
LimitLines == UNION { [1 .. n -> {UNVISITED}] : n \in 0 .. ColLimit + 2 }

LimitMaps ==
    { t \in UNION { { [i \in 1 .. r |->
                         IF i < r \/ nl THEN Append(body[i], NL) ELSE body[i]] :
                       body \in [1 .. r -> LimitLines], nl \in BOOLEAN }
                    : r \in 1 .. RowLimit + 2 } :
        \A i \in 1 .. Len(t) : t[i] # <<>> }

InitLimit == mapText \in LimitMaps /\ InitRest

LoadLimited == LoadAt(RowLimit, ColLimit)

NextLimit == LoadLimited

SpecLimit == InitLimit /\ [][NextLimit]_vars

\* The program on five larger well-formed maps, none with a final line
\* terminator: on each of them a neighbour is relaxed while it is in
\* openNodesHash (lines 166-171 without the push of lines 172-175).
\*   G#...      ..S..      ...#G      .#..S..      #..S#
\*   .#.#S      ..#..      S#...      .##.##.      #.#..
\*   .....      #....      .....      .#.....      ...#.
\*   .....      G#...                 ..#.#..      .#...
\*                                    G#.....      .##.#
\*                                                 ....#
\*                                                 ##..#
\*                                                 G....
WideMaps ==
    { << <<"G", "#", ".", ".", ".", NL>>,
         <<".", "#", ".", "#", "S", NL>>,
         <<".", ".", ".", ".", ".", NL>>,
         <<".", ".", ".", ".", ".">> >>,
      << <<".", ".", "S", ".", ".", NL>>,
         <<".", ".", "#", ".", ".", NL>>,
         <<"#", ".", ".", ".", ".", NL>>,
         <<"G", "#", ".", ".", ".">> >>,
      << <<".", ".", ".", "#", "G", NL>>,
         <<"S", "#", ".", ".", ".", NL>>,
         <<".", ".", ".", ".", ".">> >>,
      << <<".", "#", ".", ".", "S", ".", ".", NL>>,
         <<".", "#", "#", ".", "#", "#", ".", NL>>,
         <<".", "#", ".", ".", ".", ".", ".", NL>>,
         <<".", ".", "#", ".", "#", ".", ".", NL>>,
         <<"G", "#", ".", ".", ".", ".", ".">> >>,
      << <<"#", ".", ".", "S", "#", NL>>,
         <<"#", ".", "#", ".", ".", NL>>,
         <<".", ".", ".", "#", ".", NL>>,
         <<".", "#", ".", ".", ".", NL>>,
         <<".", "#", "#", ".", "#", NL>>,
         <<".", ".", ".", ".", "#", NL>>,
         <<"#", "#", ".", ".", "#", NL>>,
         <<"G", ".", ".", ".", ".">> >> }

InitWide == mapText \in WideMaps /\ InitRest

SpecWide == InitWide /\ [][Next]_vars

\* ================================================================ analysis
\* The grid of a search: the positions within size that level holds.
InGrid(n) == n[1] < size.rows /\ n[2] < size.cols /\ HasIndex(level, n[1], n[2])

GridNodes == { n \in NodesOf(level) : InGrid(n) }

\* The cells that are no obstacle in the map (the marks of a search change
\* level, the map text stays).
Passable == { n \in GridNodes : mapText[n[1] + 1][n[2] + 1] # OBSTACLE }

\* Orthogonally adjacent: differ by exactly 1 in exactly one of row and col.
Adjacent(a, b) ==
    \/ a[1] = b[1] /\ (a[2] = b[2] + 1 \/ b[2] = a[2] + 1)
    \/ a[2] = b[2] /\ (a[1] = b[1] + 1 \/ b[1] = a[1] + 1)

StepFrom(frontier, seen) ==
    { n \in Passable \ seen : \E m \in frontier : Adjacent(m, n) }

\* Breadth-first search from the start: the cells reached ...
RECURSIVE Closure(_, _)
Closure(seen, frontier) ==
    IF frontier = {} THEN seen
    ELSE LET nxt == StepFrom(frontier, seen)
         IN  Closure(seen \cup nxt, nxt)

ReachSet == Closure({start}, {start})

\* ... and the number of steps to t, Inf when t is not reached.
RECURSIVE DistTo(_, _, _, _)
DistTo(seen, frontier, k, t) ==
    IF t \in frontier THEN k
    ELSE IF frontier = {} THEN Inf
    ELSE LET nxt == StepFrom(frontier, seen)
         IN  DistTo(seen \cup nxt, nxt, k + 1, t)

BfsDistance == DistTo({start}, {start}, 0, goal)

\* The sequence that following came_from from n gives (at most fuel steps).
RECURSIVE Chain(_, _)
Chain(n, fuel) ==
    IF came_from[n] = None \/ fuel = 0 THEN <<n>>
    ELSE <<n>> \o Chain(came_from[n], fuel - 1)

PathFromGoal == Chain(goal, Cardinality(NodesOf(level)))

\* find_path has returned (and main has not started the next call).
Returned == pc = "main" /\ result # "none"

\* C1: when the goal is reachable from the start through 4-connected
\* non-obstacle cells, find_path returns True and the came_from path from the
\* goal ends at the start with BfsDistance + 1 cells: no shorter path exists.
C1_ShortestPath ==
    (Returned /\ goal \in ReachSet) =>
        /\ result = "True"
        /\ Len(PathFromGoal) = BfsDistance + 1
        /\ PathFromGoal[Len(PathFromGoal)] = start

\* Witness of C1: a path found that is longer than the Manhattan distance,
\* around obstacles.
C1_Witness ==
    /\ Returned /\ result = "True"
    /\ Len(PathFromGoal) > h(start, goal) + 1
    /\ Len(PathFromGoal) = BfsDistance + 1

\* C2: when the goal is not reachable, find_path returns False and every
\* reachable non-obstacle cell other than the start is CLOSED.
C2_NotFoundAllClosed ==
    (Returned /\ goal \notin ReachSet) =>
        /\ result = "False"
        /\ \A n \in ReachSet \ {start} : TypeAt(level, n) = CLOSED

\* Witness of C2: a failed search that closed at least three cells.
C2_Witness ==
    /\ Returned /\ result = "False"
    /\ goal \notin ReachSet
    /\ Cardinality(ReachSet) >= 4

\* C3: on success the came_from sequence begins at the goal, ends at the
\* start, its consecutive cells are orthogonally adjacent and none is an
\* obstacle.
C3_PathValid ==
    (Returned /\ result = "True") =>
        LET path == PathFromGoal
        IN  /\ path[1] = goal
            /\ path[Len(path)] = start
            /\ \A i \in 1 .. Len(path) - 1 : Adjacent(path[i], path[i + 1])
            /\ \A i \in 1 .. Len(path) : path[i] \in Passable

\* Witness of C3: a path of at least four cells in a grid with an obstacle.
C3_Witness ==
    /\ Returned /\ result = "True"
    /\ Len(PathFromGoal) >= 4
    /\ Passable # GridNodes

\* The position of the skip signal in a trace, 0 when there is none.
SkipPoint(tr) ==
    IF \E i \in 1 .. Len(tr) : tr[i][1] = "skip"
    THEN CHOOSE i \in 1 .. Len(tr) : tr[i][1] = "skip"
    ELSE 0

\* A trace without its step callbacks and skip signal: the pops, the marks
\* and the result.
RECURSIVE Marks(_)
Marks(tr) ==
    IF tr = <<>> THEN <<>>
    ELSE IF Head(tr)[1] \in {"skip", "draw"} THEN Marks(Tail(tr))
    ELSE <<Head(tr)>> \o Marks(Tail(tr))

\* C4: a second find_path call on the reloaded, unmodified map pops the same
\* cells, makes the same marks and returns the same result and path in the
\* same order as the call before it, and with the skip signal at the same
\* point also invokes the step callback at the same points.
C4_Deterministic ==
    (Returned /\ prevTrace # None) =>
        /\ Marks(trace) = Marks(prevTrace)
        /\ SkipPoint(trace) = SkipPoint(prevTrace) => trace = prevTrace

\* Witness of C4: a second call that found a path, after a call whose step
\* callbacks were all invoked, and that popped at least four cells.
C4_Witness ==
    /\ Returned /\ prevTrace # None
    /\ result = "True"
    /\ SkipPoint(prevTrace) = 0
    /\ trace = prevTrace
    /\ Cardinality({ i \in 1 .. Len(trace) : trace[i][1] = "pop" }) >= 4

\* C5: find_path called with start and goal the same cell returns True on the
\* first pop: no neighbour is expanded or pushed, came_from stays empty, the
\* path is that single cell, no cell is marked PATH and no callback is made.
C5_StartIsGoal ==
    (start = goal /\ pc \notin {"loop", "exited"}) =>
        /\ pc \in {"reconstruct", "main"}
        /\ count = 0
        /\ openNodes = {}
        /\ \A n \in NodesOf(level) : came_from[n] = None /\ TypeAt(level, n) # PATH
        /\ PathFromGoal = <<start>>
        /\ \A i \in 1 .. Len(trace) : trace[i][1] # "draw"
        /\ pc = "main" =>
              /\ result = "True"
              /\ Marks(trace) = << <<"pop", start>>, <<"goal", start>>,
                                   <<"return", "True">> >>

\* Witness of C5: such a call has returned, in a grid where the cell has a
\* neighbour to expand.
C5_Witness ==
    /\ start = goal
    /\ pc = "main" /\ result = "True"
    /\ neighbors[start] # <<>>

\* C6: once a pygame.event.get() of find_path has held a QUIT or ESC event the
\* program has exited: find_path returned neither True nor False, the step
\* callback was not invoked, and no further step is taken.
C6_CancelEndsSearch ==
    cancel =>
        /\ pc = "exited"
        /\ result = "none"
        /\ ~drawn
        /\ ~ENABLED Next

\* Witness of C6: termination requested after cells were expanded, with cells
\* left in the frontier.
C6_Witness ==
    /\ cancel /\ pc = "exited"
    /\ \E i \in 1 .. Len(trace) : trace[i][1] = "closed"
    /\ openNodes # {}

\* A search is under way or has returned.
InSearch == pc \in {"loop", "step", "reconstruct"} \/ Returned

CellsOfType(t) == { n \in NodesOf(level) : TypeAt(level, n) = t }

\* C7 as claimed: in every state of a search exactly one cell is START and
\* exactly one is GOAL.
C7_StartAndGoalKept ==
    InSearch =>
        /\ Cardinality(CellsOfType(START)) = 1
        /\ Cardinality(CellsOfType(GOAL)) = 1

\* C7 as amended: the start is the one START cell throughout; the goal is
\* the only cell that is ever GOAL, it is OPEN exactly while it is in the
\* frontier (from its discovery to its pop) and GOAL otherwise, never CLOSED
\* or PATH.
C7_StartKeptGoalOpenInFrontier ==
    InSearch =>
        /\ CellsOfType(START) = {start}
        /\ CellsOfType(GOAL) \subseteq {goal}
        /\ TypeAt(level, goal) = (IF goal \in openNodesHash THEN OPEN ELSE GOAL)

\* Witness of C7: a step callback about to draw the goal as OPEN.
C7_Witness ==
    /\ pc = "step" /\ visualize
    /\ TypeAt(level, goal) = OPEN
    /\ CellsOfType(START) = {start}

\* The number of map symbols of line i of the text.
SymbolCount(i) == Cardinality({ j \in 1 .. Len(mapText[i]) : mapText[i][j] \in Symbols })

\* make_level has returned a grid to main, no search has begun.
Loaded == pc = "main" /\ ~running

\* The rows of the text have the same number of map symbols.
Rectangular == \A i \in 1 .. Len(mapText) : SymbolCount(i) = SymbolCount(1)

OneStartOneGoal ==
    /\ Cardinality(PositionsOf(mapText, START)) = 1
    /\ Cardinality(PositionsOf(mapText, GOAL)) = 1

\* C8: make_level returns no grid unless the text holds exactly one S and
\* exactly one G (stated for rectangular texts, where the number of S and G
\* is the only possible defect).
C8_OneStartOneGoal ==
    (Loaded /\ Rectangular) =>
        /\ Cardinality(PositionsOf(mapText, START)) = 1
        /\ Cardinality(PositionsOf(mapText, GOAL)) = 1

\* C9: the grid make_level returns has one row per line and in every row one
\* cell per map symbol of the line; a line terminator gives no cell (stated
\* for rectangular texts with one S and one G).
C9_OneCellPerSymbol ==
    (Loaded /\ Rectangular /\ OneStartOneGoal) =>
        /\ Len(level) = Len(mapText)
        /\ \A i \in 1 .. Len(level) : Len(level[i]) = SymbolCount(i)

\* C10: make_level returns no grid when some row has another number of
\* columns than the first row (stated for texts with one S and one G).
C10_RaggedRejected ==
    (Loaded /\ OneStartOneGoal) => Rectangular

\* C11: with the limits RowLimit and ColLimit, make_level fails for every map
\* with more than RowLimit rows or more than ColLimit columns in some row, and
\* accepts every other map, those of exactly RowLimit rows and ColLimit
\* columns included (stated for rectangular texts).
C11_LimitsEnforced ==
    (pc # "boot" /\ Rectangular) =>
        (pc = "main" <=>
            /\ Len(mapText) <= RowLimit
            /\ \A i \in 1 .. Len(mapText) : SymbolCount(i) <= ColLimit)

\* C12: at every pop of find_path no cell of openNodesHash has a current
\* fScore strictly smaller than that of the cell popped. The step is a pass
\* of the loop that pops (pc goes from "loop" to "step" or "reconstruct");
\* openNodesHash and fScore are those before the pop, current' is the cell
\* popped.
C12_PopsMinimumFScore ==
    [][ (pc = "loop" /\ pc' \in {"step", "reconstruct"}) =>
            \A n \in openNodesHash : fScore[n] >= fScore[current'] ]_vars

\* The cells that have an entry in the priority queue.
QueuedCells == { e[3] : e \in openNodes }

\* C13: between the passes of find_path's loop openNodesHash is exactly the
\* set of cells with an entry in openNodes, no cell has two entries, and the
\* cell the next pop takes is a member of openNodesHash.
C13_HashIsQueue ==
    pc = "loop" =>
        /\ openNodesHash = QueuedCells
        /\ \A a \in openNodes : \A b \in openNodes : a[3] = b[3] => a = b
        /\ \A e \in MinEntries(openNodes) : e[3] \in openNodesHash

\* Between two passes, a queued cell was relaxed after its push: its fScore
\* is below the priority of its entry.
C13_Witness ==
    /\ pc = "loop"
    /\ \E e \in openNodes : fScore[e[3]] < e[1]
    /\ Cardinality(openNodes) > 1

\* The neighbours of node n as a set.
NeighborSet(n) == { neighbors[n][i] : i \in 1 .. Len(neighbors[n]) }

\* A step of a search that keeps to strict improvement.
StrictImprovementStep ==
    pc \in {"loop", "step", "reconstruct"} =>
        /\ \A n \in DOMAIN gScore :
              /\ gScore'[n] <= gScore[n]
              /\ came_from'[n] # came_from[n] => gScore'[n] < gScore[n]
        /\ (pc = "loop" /\ pc' = "step") =>
              \A n \in NeighborSet(current') :
                  gScore[n] = gScore[current'] + 1 =>
                      /\ came_from'[n] = came_from[n]
                      /\ gScore'[n] = gScore[n]
                      /\ fScore'[n] = fScore[n]

\* C14: in every step of a search no gScore increases, came_from[n] changes
\* only in a step in which gScore[n] strictly decreases, and a neighbour of
\* the cell popped whose gScore equals the cost offered (gScore of that cell
\* + 1) keeps its predecessor, gScore and fScore.
C14_StrictImprovementOnly == [][StrictImprovementStep]_vars

\* The cell just expanded has a neighbour it reached at a cost equal to that
\* neighbour's gScore, whose predecessor is another cell.
C14_Witness ==
    /\ pc = "step"
    /\ \E n \in NeighborSet(current) :
          /\ gScore[n] = gScore[current] + 1
          /\ came_from[n] # None
          /\ came_from[n] # current

\* The last cell of the came_from chain from n.
ChainEnd(n) ==
    LET ch == Chain(n, Cardinality(NodesOf(level))) IN ch[Len(ch)]

\* C15: in every state of a search the predecessor of a cell has a strictly
\* smaller gScore than the cell, so the came_from chain from any cell ends,
\* without repeating a cell, at a cell with no entry, which is the start; the
\* walk of reconstruct_path from the goal therefore reaches the start.
C15_PredecessorCloser ==
    InSearch =>
        /\ \A c \in DOMAIN came_from :
              came_from[c] # None =>
                  /\ gScore[came_from[c]] < gScore[c]
                  /\ came_from[ChainEnd(c)] = None
                  /\ ChainEnd(c) = start
        /\ pc = "reconstruct" => ChainEnd(current) = start

\* reconstruct_path has walked from the goal over at least two cells to the
\* start.
C15_Witness ==
    /\ pc = "reconstruct"
    /\ current = start
    /\ Len(PathFromGoal) >= 4
    /\ gScore[goal] = Len(PathFromGoal) - 1

\* C16: in every state of a search a cell has a came_from entry exactly when
\* it is not the start and its gScore is finite; the start keeps gScore 0 and
\* its first fScore and has no entry.
C16_EntryIffDiscovered ==
    InSearch =>
        /\ \A c \in DOMAIN came_from :
              came_from[c] # None <=> (c # start /\ gScore[c] < Inf)
        /\ gScore[start] = 0
        /\ fScore[start] = h(start, goal)
        /\ came_from[start] = None

\* A neighbour of the start has been expanded, offering the start cost 2,
\* while some cell is still undiscovered.
C16_Witness ==
    /\ pc = "step"
    /\ current # start
    /\ start \in NeighborSet(current)
    /\ \E c \in DOMAIN gScore : gScore[c] = Inf /\ c \in Passable
    /\ \E c \in DOMAIN gScore : came_from[c] = current

\* C17: every call of find_path during which no QUIT or ESC event arrives
\* eventually returns, True after the goal was popped or False after the
\* queue became empty.
C17_Terminates ==
    <>( /\ Returned
        /\ \/ result = "True" /\ goal \notin openNodesHash /\ gScore[goal] < Inf
           \/ result = "False" /\ openNodes = {} )

\* A call has returned False with an empty queue after at least two pushes.
C17_Witness ==
    /\ Returned
    /\ result = "False"
    /\ ~cancel
    /\ openNodes = {}
    /\ count >= 2

\* The pops of a trace, and the end of the loop pass that pop i begins: the
\* position of the next pop or return, or one past the end of the trace.
PopsOf(tr) == { i \in 1 .. Len(tr) : tr[i][1] = "pop" }

PassEnd(tr, i) ==
    LET nxt == { j \in i + 1 .. Len(tr) : tr[j][1] \in {"pop", "return"} }
    IN  IF nxt = {} THEN Len(tr) + 1
        ELSE CHOOSE j \in nxt : \A k \in nxt : j <= k

DrawsOf(tr, i) == { j \in i + 1 .. PassEnd(tr, i) - 1 : tr[j][1] = "draw" }

\* The skip signal came before or in the pass of pop i (the events are read
\* before the pop).
SkippedAt(tr, i) == SkipPoint(tr) # 0 /\ SkipPoint(tr) < i

\* The pass of pop i has reached the end of the loop body.
PassDone(tr, i) == PassEnd(tr, i) <= Len(tr) \/ pc # "step"

\* C18: a pass of find_path's loop that pops a cell other than the goal
\* invokes the step callback exactly once when skip has not been signalled,
\* after the marks of its neighbours and before the cell popped is marked
\* closed, and not at all when skip has been signalled; skip is signalled at
\* most once in a search and visualize stays off from then on.
C18_StepCallbackCadence ==
    /\ \A i \in PopsOf(trace) :
          trace[i][2] # goal =>
              LET D == DrawsOf(trace, i)
              IN  IF SkippedAt(trace, i) \/ ~PassDone(trace, i) THEN D = {}
                  ELSE /\ Cardinality(D) = 1
                       /\ \A d \in D : \A j \in i + 1 .. PassEnd(trace, i) - 1 :
                             /\ trace[j][1] = "open" => j < d
                             /\ trace[j][1] = "closed" => j > d
    /\ Cardinality({ i \in 1 .. Len(trace) : trace[i][1] = "skip" }) <= 1
    /\ (SkipPoint(trace) # 0 /\ pc \in {"loop", "step", "reconstruct"}) => ~visualize

\* Skip was signalled in the course of a search: a pass before it invoked
\* the callback and closed its cell, a pass after it has been completed.
C18_Witness ==
    /\ pc = "loop"
    /\ SkipPoint(trace) # 0
    /\ \E i \in PopsOf(trace) :
          /\ ~SkippedAt(trace, i)
          /\ \E j \in i + 1 .. PassEnd(trace, i) - 1 : trace[j][1] = "closed"
    /\ \E i \in PopsOf(trace) :
          /\ SkippedAt(trace, i)
          /\ \E j \in i + 1 .. PassEnd(trace, i) - 1 : trace[j][1] = "closed"

\* The cells strictly between the goal and the end of its came_from chain.
Intermediate ==
    { PathFromGoal[i] : i \in 2 .. Len(PathFromGoal) - 1 }

BfsDistanceTo(n) == DistTo({start}, {start}, 0, n)

\* C20: the cell a pass of find_path's loop expands has a gScore equal to its
\* breadth-first distance from the start, no cell is popped twice in a search
\* and no cell is pushed after it was popped.
C20_ExpandedAtShortestDistance ==
    InSearch =>
        /\ pc = "step" => gScore[current] = BfsDistanceTo(current)
        /\ \A i \in PopsOf(trace) : \A j \in 1 .. Len(trace) :
              (j > i /\ trace[j][1] \in {"pop", "open"}) => trace[j][2] # trace[i][2]

====
